---------------------------- MODULE Spec2Model ----------------------------
(***************************************************************************)
(* Key-value storage engine of aspacca/keyvaluestorage: the filesystem     *)
(* backend (one file per key, named by md5 of the key), the in-memory      *)
(* backend (a table key -> entry), the entry codec, lazy expiration, the   *)
(* glob scan and the lock registry.                                        *)
(*                                                                         *)
(* Spec      one caller at a time: every action is a whole facade call.    *)
(* SpecConc  concurrent callers: every action is one step of a call, so    *)
(*           that calls interleave inside lock/lockAll and inside their    *)
(*           critical sections.                                            *)
(* SpecSnap, SpecSnapFair  the memory backend with its snapshot file.      *)
(* SpecGlob, SpecRestart, SpecBoth, SpecExpire  pattern queries, restarts  *)
(*           of the filesystem backend, both backends side by side, and    *)
(*           the expire_in parameter of PUT.                               *)
(*                                                                         *)
(* Keys are Go strings, values are bytes.  Strings are sequences of        *)
(* one-character strings.                                                  *)
(***************************************************************************)
EXTENDS Integers, Sequences, FiniteSets, TLC

VARIABLES
    backend,    \* "fs" | "memory": the Storage implementation selected at startup
    now,        \* time.Now().UnixNano(), in model ticks
    files,      \* fs: the storage directory, file name -> content
    data,       \* memory: s.data, key -> entry
    locks,      \* s.locks, key -> the mutex object registered for it
    mutex,      \* every mutex object -> Free or the caller that locked it
    hist,       \* per key, the last mutating call on it and how it ended
    ret,        \* Spec: the call that returned last, with its result
    pc,         \* SpecConc: per caller, the place in its call
    op,         \* SpecConc: per caller, the call and its arguments
    mtx,        \* SpecConc: per caller, the mutex object it loaded from s.locks
    seen,       \* SpecConc: per caller, keys its current `range s.locks` produced
    base,       \* SpecConc: per caller, keys registered when that range began
    list,       \* SpecConc: per caller, names still to visit in its scan
    acc,        \* SpecConc: per caller, the ret slice of GetPattern
    res,        \* SpecConc: per caller, the result of its last finished call
    crashed,    \* SpecConc: the Go runtime ended the process with a fatal error
    wrote,      \* SpecConc: some Put or Delete was started on this instance
    snap,       \* memory: the bytes of the snapshot file memory.db
    during      \* per task, the tables s.data went through during its running checkpoint

vars == <<backend, now, files, data, locks, mutex, hist, ret,
          pc, op, mtx, seen, base, list, acc, res, crashed, wrote, snap, during>>

storeVars == <<files, data>>
concVars == <<pc, op, mtx, seen, base, list, acc, res, crashed, wrote>>

---------------------------------------------------------------------------
(* Bounds and input sets *)

MaxNow == 3
MaxDur == 1
\* The width of the integers of the model, in place of the 64 bits of int,
\* int64 and time.Duration.
IntBits == 5

Keys == { <<"a">>, <<"a", "b">> }
Values == { <<"x">>, <<"y">> }
Patterns == { <<"*">>, <<"a", "*">>, <<"?">>, <<"a", "?">>, <<"b">> }
Procs == { "p1", "p2" }

noExpiration == -1
Durations == {noExpiration} \cup (0..MaxDur)

Backends == { "fs", "memory" }

Nil == "nil"
errNotExists == "errNotExists"
errIO == "error"

PutFaults == { "none", "open", "write", "short" }
DeleteFaults == { "none", "remove" }

Free == "free"

---------------------------------------------------------------------------
(* Helpers on sequences and sets *)

Range(s) == { s[i] : i \in DOMAIN s }

Perms(S) == { s \in [1..Cardinality(S) -> S] : \A i, j \in DOMAIN s : s[i] = s[j] => i = j }

RECURSIVE Flatten(_)
Flatten(ss) == IF ss = <<>> THEN <<>> ELSE Head(ss) \o Flatten(Tail(ss))

Remove(f, x) == [y \in (DOMAIN f) \ {x} |-> f[y]]

Store(f, x, v) == [y \in (DOMAIN f) \cup {x} |-> IF y = x THEN v ELSE f[y]]

---------------------------------------------------------------------------
(* Entry codec and helpers shared by both backends *)

Separator == "/"

\* md5Hash: the file name of a key; injective on the keys of the model.
md5HashCollide(s) == <<"m", "d", "5">>
md5Hash(s) == <<"m", "d", "5", ":">> \o s

isExpiredAtDeadline(expirationTime) == expirationTime > 0 /\ now >= expirationTime
isExpiredNever(expirationTime) == FALSE
\* isExpired: reads the clock.
isExpired(expirationTime) == expirationTime > 0 /\ now > expirationTime

\* A byte of a Go string that is not valid UTF-8, and the Unicode replacement
\* rune U+FFFD.
InvalidByte == "\\xff"
RuneError == "\\ufffd"

\* encoding/json string encoding of entry.Key: quote and backslash are escaped,
\* a byte that is not valid UTF-8 is written as the replacement rune.
RECURSIVE JsonEscape(_)
JsonEscape(s) ==
    IF s = <<>> THEN <<>>
    ELSE IF Head(s) \in {"\"", "\\"} THEN <<"\\", Head(s)>> \o JsonEscape(Tail(s))
    ELSE IF Head(s) = InvalidByte THEN <<RuneError>> \o JsonEscape(Tail(s))
    ELSE <<Head(s)>> \o JsonEscape(Tail(s))

RECURSIVE JsonUnescape(_)
JsonUnescape(s) ==
    IF s = <<>> THEN <<>>
    ELSE IF Head(s) = "\\" /\ Len(s) >= 2 THEN <<s[2]>> \o JsonUnescape(Tail(Tail(s)))
    ELSE <<Head(s)>> \o JsonUnescape(Tail(s))

\* encoding/json encodes entry.Value ([]byte) as base64 text.
B64Encode(v) == [i \in DOMAIN v |-> <<"b64", v[i]>>]
B64Decode(t) == [i \in DOMAIN t |-> t[i][2]]

\* The bytes of a file: nothing, or the JSON document of one entry.
EmptyBytes == [kind |-> "empty", key |-> <<>>, value |-> <<>>, expiration |-> 0]

\* The bytes of a file that holds the beginning of a JSON document only.
PartialBytes == [kind |-> "partial", key |-> <<>>, value |-> <<>>, expiration |-> 0]

ZeroEntry == [Key |-> <<>>, Value |-> <<>>, Expiration |-> 0]

\* json.Marshal(newEntry)
Marshal(e) ==
    [kind |-> "json", key |-> JsonEscape(e.Key), value |-> B64Encode(e.Value),
     expiration |-> e.Expiration]

\* json.Unmarshal(b, &entry)
Unmarshal(b) ==
    IF b.kind = "json"
    THEN [err |-> Nil,
          entry |-> [Key |-> JsonUnescape(b.key), Value |-> B64Decode(b.value),
                     Expiration |-> b.expiration]]
    ELSE [err |-> errIO, entry |-> ZeroEntry]

\* int64, time.Duration: two's complement integers of IntBits bits.
MinInt == -(2 ^ (IntBits - 1))
MaxInt == 2 ^ (IntBits - 1) - 1
Wrap(x) == ((x - MinInt) % (2 ^ IntBits)) + MinInt

\* Put: the absolute deadline of a relative expiration,
\* time.Now().Add(expiration).UnixNano() in int64.
newExpiration(expiration) ==
    IF expiration # noExpiration THEN Wrap(now + expiration) ELSE 0

newEntry(key, value, expiration) ==
    [Key |-> key, Value |-> value, Expiration |-> newExpiration(expiration)]

\* filepath.Match on patterns of literals, `*` and `?`: anchored on the whole
\* name; `*` and `?` do not match the path separator.
RECURSIVE Glob(_, _)
Glob(p, n) ==
    IF p = <<>> THEN n = <<>>
    ELSE IF Head(p) = "*"
         THEN Glob(Tail(p), n)
              \/ (n # <<>> /\ Head(n) # Separator /\ Glob(p, Tail(n)))
         ELSE /\ n # <<>>
              /\ IF Head(p) = "?" THEN Head(n) # Separator ELSE Head(n) = Head(p)
              /\ Glob(Tail(p), Tail(n))

ErrBadPattern == "syntax error in pattern"

\* A bracket expression that is opened and never closed.
BadPattern(pattern) ==
    \E i \in DOMAIN pattern :
        pattern[i] = "[" /\ \A j \in (i + 1)..Len(pattern) : pattern[j] # "]"

MatchPrefix(pattern, name) ==
    [matched |-> \E i \in 0..Len(name) : Glob(pattern, SubSeq(name, 1, i)), err |-> Nil]
MatchIgnoreBracket(pattern, name) ==
    [matched |-> Glob(SelectSeq(pattern, LAMBDA c : c # "["), name), err |-> Nil]
\* filepath.Match(pattern, name): a malformed pattern matches nothing and is
\* reported as ErrBadPattern.
Match(pattern, name) ==
    IF BadPattern(pattern) THEN [matched |-> FALSE, err |-> ErrBadPattern]
    ELSE [matched |-> Glob(pattern, name), err |-> Nil]

\* fmt.Sprintf(`{"%s":"%s"}`, entry.Key, entry.Value)
Format(e) == <<"{", "\"">> \o e.Key \o <<"\"", ":", "\"">> \o e.Value \o <<"\"", "}">>

RECURSIVE Join(_, _)
Join(ss, sep) ==
    IF ss = <<>> THEN <<>>
    ELSE IF Len(ss) = 1 THEN Head(ss)
    ELSE Head(ss) \o <<sep>> \o Join(Tail(ss), sep)

\* fmt.Sprintf("[%s]", strings.Join(ret, ","))
Render(objs) == <<"[">> \o Join(objs, ",") \o <<"]">>

\* What one entry adds to the ret slice of GetPattern.
selectEntry(e, pattern) ==
    LET m == Match(pattern, e.Key)
    IN  IF ~m.matched \/ m.err # Nil THEN <<>>
        ELSE IF ~isExpired(e.Expiration) THEN <<Format(e)>>
        ELSE <<>>

---------------------------------------------------------------------------
(* Filesystem backend: the directory is a map file name -> bytes *)

EmptyMap == [x \in {} |-> x]

Result(e, b) == [err |-> e, body |-> b]

\* getAllStorageKeys: ioutil.ReadDir lists the names in one fixed order.
getAllStorageKeys(dir) == CHOOSE s \in Perms(DOMAIN dir) : TRUE

\* getReader + ReadAll: a missing file is errNotExists.
getStorageData(dir, name) ==
    IF name \in DOMAIN dir THEN [b |-> dir[name], err |-> Nil]
    ELSE [b |-> EmptyBytes, err |-> errNotExists]

\* fileSystemStorage.Get, between lock and unlock.
fsGet(dir, key) ==
    LET d == getStorageData(dir, md5Hash(key))
        u == Unmarshal(d.b)
    IN  IF d.err # Nil THEN Result(d.err, <<>>)
        ELSE IF d.b.kind = "empty" THEN Result(errNotExists, <<>>)
        ELSE IF u.err # Nil THEN Result(u.err, <<>>)
        ELSE IF ~isExpired(u.entry.Expiration) THEN Result(Nil, u.entry.Value)
        ELSE Result(errNotExists, <<>>)

IsNotExistAny(err) == err # Nil
\* fileSystemStorage.IsNotExist, memoryStorage.IsNotExist
IsNotExist(err) == IF err = Nil THEN FALSE ELSE err = errNotExists

fsSelectNoSkip(dir, name, pattern) ==
    LET d == getStorageData(dir, name)
    IN  IF d.err # Nil THEN <<>> ELSE selectEntry(Unmarshal(d.b).entry, pattern)
\* The body of the loop of fileSystemStorage.GetPattern for one file name.
fsSelect(dir, name, pattern) ==
    LET d == getStorageData(dir, name)
        u == Unmarshal(d.b)
    IN  IF d.err # Nil THEN <<>>
        ELSE IF d.b.kind = "empty" THEN <<>>
        ELSE IF u.err # Nil THEN <<>>
        ELSE selectEntry(u.entry, pattern)

fsGetPatternNotFound(dir, pattern) ==
    LET keys == getAllStorageKeys(dir)
        objs == Flatten([i \in DOMAIN keys |-> fsSelect(dir, keys[i], pattern)])
    IN  IF objs = <<>> THEN Result(errNotExists, <<>>) ELSE Result(Nil, Render(objs))
\* fileSystemStorage.GetPattern, between lockAll and unlockAll.
fsGetPattern(dir, pattern) ==
    LET keys == getAllStorageKeys(dir)
    IN  Result(Nil, Render(Flatten([i \in DOMAIN keys |-> fsSelect(dir, keys[i], pattern)])))

\* getWriter (open or create), Truncate(0), Seek, Write, Sync; `fault` is the
\* step the operating system fails, if any: "open" leaves the directory as it
\* was, "write" leaves the file truncated, "short" leaves a part of the document
\* (Write stored some of the bytes before it failed).
dumpToStorage(dir, key, bytes, fault) ==
    LET name == md5Hash(key)
    IN  CASE fault = "open"     -> [dir |-> dir, err |-> errIO]
          [] fault = "write"    -> [dir |-> Store(dir, name, EmptyBytes), err |-> errIO]
          [] fault = "short"    -> [dir |-> Store(dir, name, PartialBytes), err |-> errIO]
          [] OTHER              -> [dir |-> Store(dir, name, bytes), err |-> Nil]

\* fileSystemStorage.Put, between lock and unlock.
fsPut(dir, key, value, expiration, fault) ==
    dumpToStorage(dir, key, Marshal(newEntry(key, value, expiration)), fault)

deleteStorageKeep(dir, name, fault) ==
    IF fault = "remove" THEN [dir |-> dir, err |-> errIO]
    ELSE IF name \in DOMAIN dir THEN [dir |-> dir, err |-> Nil]
    ELSE [dir |-> dir, err |-> errNotExists]
\* deleteStorage: os.Remove; a missing file is errNotExists.
deleteStorage(dir, name, fault) ==
    IF fault = "remove" THEN [dir |-> dir, err |-> errIO]
    ELSE IF name \in DOMAIN dir THEN [dir |-> Remove(dir, name), err |-> Nil]
    ELSE [dir |-> dir, err |-> errNotExists]

\* fileSystemStorage.Delete, between lock and unlock.
fsDelete(dir, key, fault) == deleteStorage(dir, md5Hash(key), fault)

\* The loop of fileSystemStorage.DeleteAll: the result of deleteStorage is
\* dropped; `failed` are the names whose os.Remove fails.
RECURSIVE removeEach(_, _, _)
removeEach(dir, keys, failed) ==
    IF keys = <<>> THEN dir
    ELSE removeEach(
            deleteStorage(dir, Head(keys),
                          IF Head(keys) \in failed THEN "remove" ELSE "none").dir,
            Tail(keys), failed)

\* fileSystemStorage.DeleteAll, between lockAll and unlockAll.
fsDeleteAll(dir, failed) ==
    [dir |-> removeEach(dir, getAllStorageKeys(dir), failed), err |-> Nil]

---------------------------------------------------------------------------
(* In-memory backend: the table is a map key -> entry *)

\* memoryStorage.Get, between lock and unlock.
memGet(table, key) ==
    IF key \notin DOMAIN table THEN Result(errNotExists, <<>>)
    ELSE IF ~isExpired(table[key].Expiration) THEN Result(Nil, table[key].Value)
    ELSE Result(errNotExists, <<>>)

\* memoryStorage.GetPattern: `order` is the order in which range s.data
\* produced the keys.
memGetPattern(table, order, pattern) ==
    Result(Nil, Render(Flatten([i \in DOMAIN order |-> selectEntry(table[order[i]], pattern)])))

\* memoryStorage.Put, between lock and unlock.
memPutKeepsDeadline(table, key, value, expiration) ==
    [table |-> Store(table, key,
                     IF key \in DOMAIN table
                     THEN [newEntry(key, value, expiration) EXCEPT
                              !.Expiration = table[key].Expiration]
                     ELSE newEntry(key, value, expiration)),
     err |-> Nil]
\* memoryStorage.Put, between lock and unlock.
memPut(table, key, value, expiration) ==
    [table |-> Store(table, key, newEntry(key, value, expiration)), err |-> Nil]

memDeleteClears(table, key) ==
    IF key \notin DOMAIN table THEN [table |-> table, err |-> errNotExists]
    ELSE [table |-> EmptyMap, err |-> Nil]
memDeleteNoError(table, key) == [table |-> Remove(table, key), err |-> Nil]
\* memoryStorage.Delete, between lock and unlock.
memDelete(table, key) ==
    IF key \notin DOMAIN table THEN [table |-> table, err |-> errNotExists]
    ELSE [table |-> Remove(table, key), err |-> Nil]

\* memoryStorage.DeleteAll, between lockAll and unlockAll.
memDeleteAll(table) == [table |-> EmptyMap, err |-> Nil]

---------------------------------------------------------------------------
(* memory backend: the snapshot file *)

\* The byte of a character of a key, for Go's comparison of strings.
CharCode(c) == CASE c = "a" -> 97 [] c = "b" -> 98 [] OTHER -> 0

\* s < t for Go strings.
RECURSIVE Less(_, _)
Less(s, t) ==
    IF t = <<>> THEN FALSE
    ELSE IF s = <<>> THEN TRUE
    ELSE IF Head(s) = Head(t) THEN Less(Tail(s), Tail(t))
    ELSE CharCode(Head(s)) < CharCode(Head(t))

\* encoding/json writes the keys of a map in sorted order.
SortedKeys(S) == CHOOSE q \in Perms(S) : \A i, j \in DOMAIN q : i < j => Less(q[i], q[j])

\* The decimal digits of an int64: a UnixNano deadline is longer than "0".
Digits(n) == IF n = 0 THEN <<"0">> ELSE <<"ns", n>>

\* json.Marshal of one entry, as text.
MarshalText(e) ==
    <<"{", "\"key\":", "\"">> \o JsonEscape(e.Key) \o <<"\"", ",", "\"value\":", "\"">>
    \o B64Encode(e.Value) \o <<"\"", ",", "\"expiration\":">> \o Digits(e.Expiration) \o <<"}">>

\* json.Marshal(s.data): a JSON object, key -> entry.
MarshalTable(table) ==
    LET keys == SortedKeys(DOMAIN table)
    IN  <<"{">>
        \o Join([i \in DOMAIN keys |->
                    <<"\"">> \o JsonEscape(keys[i]) \o <<"\"", ":">> \o MarshalText(table[keys[i]])],
                ",")
        \o <<"}">>

\* The tables a snapshot written by this program can hold.
Deadlines == 0..(MaxNow + MaxDur)
Tables ==
    UNION { { t \in [S -> [Key : Keys, Value : Values, Expiration : Deadlines]] :
                \A k \in S : t[k].Key = k } : S \in SUBSET Keys }

\* json.Unmarshal(cache, &data): the table whose document the bytes are, or an error.
UnmarshalTable(bytes) ==
    IF \E t \in Tables : MarshalTable(t) = bytes
    THEN [err |-> Nil, table |-> CHOOSE t \in Tables : MarshalTable(t) = bytes]
    ELSE [err |-> errIO, table |-> EmptyMap]

\* NewMemoryStorage: reads the snapshot; an empty file stands for "{}".
NewMemoryStorage(bytes) ==
    IF bytes = <<>> THEN UnmarshalTable(<<"{", "}">>) ELSE UnmarshalTable(bytes)

\* f.Write(data) at offset 0 of a file that holds `old`.
WriteAtStart(bytes, old) ==
    IF Len(bytes) >= Len(old) THEN bytes
    ELSE bytes \o SubSeq(old, Len(bytes) + 1, Len(old))

\* The running checkpoints take note of a new value of s.data.
Track(table) == [p \in Procs |-> IF during[p] = {} THEN {} ELSE during[p] \cup {table}]

---------------------------------------------------------------------------
(* Lock registry *)

MutexIds == Keys \X Procs

\* lock(key) followed by unlock(key) with no other caller around: the key is
\* registered with a mutex of its own if it was not, and the mutex is free again.
newMutexShared(key, p) == <<<<"a">>, "p1">>
\* &sync.Mutex{}: a new mutex object, unlocked, that nothing else refers to.
newMutex(key, p) == <<key, p>>

registered(reg, key, p) ==
    IF key \in DOMAIN reg THEN reg ELSE Store(reg, key, newMutex(key, p))

---------------------------------------------------------------------------
(* Spec: whole facade calls, one at a time *)

\* hist[k]: "none", or the last call that touched the entry of k and how it
\* ended: "put" (a Put that returned nil; with its value and, if it expires, the
\* time of the Put plus its duration), "putfail" (a Put that failed after it
\* truncated the file), "torn" (a Put that returned nil, followed by a Put on k
\* that the end of the process interrupted), "del" (a Delete that returned nil),
\* "delall" (removed by a DeleteAll).  A call that fails and leaves the store as it was leaves hist[k]
\* as it was.  cleared: a DeleteAll has returned nil since the last Put or
\* Delete on k.
NoHist == [kind |-> "none", value |-> <<>>, expires |-> FALSE, deadline |-> 0,
           cleared |-> FALSE]
Ended(kind) == [kind |-> kind, value |-> <<>>, expires |-> FALSE, deadline |-> 0,
                cleared |-> FALSE]

Returned(name, key, pattern, r, pre, fault) ==
    [op |-> name, key |-> key, pattern |-> pattern, err |-> r.err, body |-> r.body,
     pre |-> pre, fault |-> fault]

\* The deadline of the last Put on k has passed.
PastDeadline(k) == hist[k].expires /\ now > hist[k].deadline

\* What a call finds for its key: the kind of the last call that changed it,
\* or "expired" for an entry whose deadline has passed.
Pre(k) == IF hist[k].kind = "put" /\ PastDeadline(k) THEN "expired" ELSE hist[k].kind

NoReturn == Returned("none", <<>>, <<>>, Result(Nil, <<>>), "none", "none")

IdleConc ==
    /\ pc = [p \in Procs |-> "idle"]
    /\ op = [p \in Procs |-> [name |-> "none", key |-> <<>>, value |-> <<>>, pattern |-> <<>>]]
    /\ mtx = [p \in Procs |-> <<>>]
    /\ seen = [p \in Procs |-> {}]
    /\ base = [p \in Procs |-> {}]
    /\ list = [p \in Procs |-> [todo |-> <<>>, known |-> {}]]
    /\ acc = [p \in Procs |-> <<>>]
    /\ res = [p \in Procs |-> [op |-> "none", key |-> <<>>, pattern |-> <<>>,
                               err |-> Nil, body |-> <<>>]]
    /\ crashed = FALSE
    /\ wrote = FALSE
    /\ snap = <<>>
    /\ during = [p \in Procs |-> {}]

\* NewFileSystemStorage / NewMemoryStorage on a directory that holds nothing.
Init ==
    /\ backend \in Backends
    /\ now = 1
    /\ files = EmptyMap
    /\ data = EmptyMap
    /\ locks = EmptyMap
    /\ mutex = [m \in MutexIds |-> Free]
    /\ hist = [k \in Keys |-> NoHist]
    /\ ret = NoReturn
    /\ IdleConc

Put(key, value, expiration, fault) ==
    /\ backend = "memory" => fault = "none"
    /\ LET r == IF backend = "fs"
                THEN fsPut(files, key, value, expiration, fault)
                ELSE [dir |-> files, err |-> memPut(data, key, value, expiration).err]
       IN  /\ files' = r.dir
           /\ data' = IF backend = "memory"
                      THEN memPut(data, key, value, expiration).table
                      ELSE data
           /\ hist' = [hist EXCEPT ![key] =
                          IF r.err = Nil
                          THEN [kind |-> "put", value |-> value,
                                expires |-> expiration # noExpiration,
                                deadline |-> IF expiration = noExpiration THEN 0
                                             ELSE now + expiration,
                                cleared |-> FALSE]
                          ELSE IF r.dir = files THEN hist[key]
                          ELSE Ended("putfail")]
           /\ ret' = Returned("Put", key, <<>>, Result(r.err, <<>>), Pre(key), fault)
    /\ locks' = registered(locks, key, "p1")
    /\ UNCHANGED <<backend, snap, during, now, mutex, concVars>>

GetPurges(key) ==
    /\ ret' = Returned("Get", key, <<>>,
                       IF backend = "fs" THEN fsGet(files, key) ELSE memGet(data, key),
                       hist[key].kind, "none")
    /\ locks' = registered(locks, key, "p1")
    /\ files' = IF Pre(key) = "expired" THEN Remove(files, md5Hash(key)) ELSE files
    /\ data' = IF Pre(key) = "expired" THEN Remove(data, key) ELSE data
    /\ UNCHANGED <<backend, snap, during, now, mutex, hist, concVars>>

Get(key) ==
    /\ ret' = Returned("Get", key, <<>>,
                       IF backend = "fs" THEN fsGet(files, key) ELSE memGet(data, key),
                       hist[key].kind, "none")
    /\ locks' = registered(locks, key, "p1")
    /\ UNCHANGED <<backend, snap, during, now, files, data, mutex, hist, concVars>>

GetPattern(pattern) ==
    /\ \/ /\ backend = "fs"
          /\ ret' = Returned("GetPattern", <<>>, pattern, fsGetPattern(files, pattern),
                             "none", "none")
       \/ /\ backend = "memory"
          /\ \E order \in Perms(DOMAIN data) :
                ret' = Returned("GetPattern", <<>>, pattern,
                                memGetPattern(data, order, pattern), "none", "none")
    /\ UNCHANGED <<backend, snap, during, now, files, data, locks, mutex, hist, concVars>>

Delete(key, fault) ==
    /\ backend = "memory" => fault = "none"
    /\ LET r == IF backend = "fs" THEN fsDelete(files, key, fault)
                ELSE [dir |-> files, err |-> memDelete(data, key).err]
       IN  /\ files' = r.dir
           /\ data' = IF backend = "memory" THEN memDelete(data, key).table ELSE data
           /\ hist' = [hist EXCEPT ![key] =
                          IF r.err = Nil THEN Ended("del") ELSE hist[key]]
           /\ ret' = Returned("Delete", key, <<>>, Result(r.err, <<>>), Pre(key), fault)
    /\ locks' = registered(locks, key, "p1")
    /\ UNCHANGED <<backend, snap, during, now, mutex, concVars>>

\* failed: the files whose os.Remove fails during this call.
DeleteAll(failed) ==
    /\ backend = "memory" => failed = {}
    /\ LET r == IF backend = "fs" THEN fsDeleteAll(files, failed)
                ELSE [dir |-> files, err |-> memDeleteAll(data).err]
       IN  /\ files' = r.dir
           /\ data' = IF backend = "memory" THEN memDeleteAll(data).table ELSE data
           /\ hist' = [k \in Keys |->
                          IF r.err # Nil \/ hist[k].kind = "none" THEN hist[k]
                          ELSE IF md5Hash(k) \in failed
                               THEN [hist[k] EXCEPT !.cleared = TRUE]
                               ELSE [Ended("delall") EXCEPT !.cleared = TRUE]]
           /\ ret' = Returned("DeleteAll", <<>>, <<>>, Result(r.err, <<>>), "none",
                              IF failed = {} THEN "none" ELSE "remove")
    /\ UNCHANGED <<backend, snap, during, now, locks, mutex, concVars>>

\* The process ends between two calls and NewFileSystemStorage is called on
\* the same directory: the new instance has an empty lock registry.
Restart ==
    /\ backend = "fs"
    /\ locks' = EmptyMap
    /\ ret' = Returned("Restart", <<>>, <<>>, Result(Nil, <<>>), "none", "none")
    /\ UNCHANGED <<backend, snap, during, now, files, data, mutex, hist, concVars>>

\* The process ends inside Put(key, ...), after Truncate(0) and before Sync:
\* the file holds nothing (fault "write") or a part of the new document
\* (fault "short"), and no call returns. An entry the key held becomes "torn".
Crash(key, fault) ==
    /\ backend = "fs"
    /\ files' = dumpToStorage(files, key, EmptyBytes, fault).dir
    /\ hist' = [hist EXCEPT ![key] =
                   IF hist[key].kind \in {"put", "torn"}
                   THEN [hist[key] EXCEPT !.kind = "torn"]
                   ELSE Ended("putfail")]
    /\ locks' = EmptyMap
    /\ ret' = Returned("Crash", key, <<>>, Result(Nil, <<>>), Pre(key), fault)
    /\ UNCHANGED <<backend, snap, during, now, data, mutex, concVars>>

\* The clock advances between calls; ret is the call returning at this instant.
Tick ==
    /\ now < MaxNow
    /\ now' = now + 1
    /\ ret' = NoReturn
    /\ UNCHANGED <<backend, snap, during, files, data, locks, mutex, hist, concVars>>

Next ==
    \/ \E key \in Keys, value \in Values, expiration \in Durations, fault \in PutFaults :
          Put(key, value, expiration, fault)
    \/ \E key \in Keys : Get(key)
    \/ \E pattern \in Patterns : GetPattern(pattern)
    \/ \E key \in Keys, fault \in DeleteFaults : Delete(key, fault)
    \/ \E failed \in SUBSET (DOMAIN files) : DeleteAll(failed)
    \/ Tick

Spec == Init /\ [][Next]_vars

\* The filesystem backend over the lives of several processes on one directory.
InitRestart == Init /\ backend = "fs"

CrashFaults == { "write", "short" }

NextRestart ==
    \/ \E key \in Keys, value \in Values, expiration \in Durations :
          Put(key, value, expiration, "none")
    \/ \E key \in Keys : Get(key)
    \/ \E key \in Keys : Delete(key, "none")
    \/ DeleteAll({})
    \/ Restart
    \/ \E key \in Keys, fault \in CrashFaults : Crash(key, fault)
    \/ Tick

SpecRestart == InitRestart /\ [][NextRestart]_vars

---------------------------------------------------------------------------
(* SpecConc: concurrent callers, one step of a call at a time *)

ConcValues == { <<"x">> }
ConcPatterns == { <<"*">> }

\* The entries of a directory or snapshot written by an earlier run.
Preloaded == [k \in Keys |-> [Key |-> k, Value |-> <<"x">>, Expiration |-> 0]]

NoCall == [name |-> "none", key |-> <<>>, value |-> <<>>, pattern |-> <<>>]
NoResult == [op |-> "none", key |-> <<>>, pattern |-> <<>>, err |-> Nil, body |-> <<>>]
NoScan == [todo |-> <<>>, known |-> {}]

Finished(p, r) ==
    [op |-> op[p].name, key |-> op[p].key, pattern |-> op[p].pattern,
     err |-> r.err, body |-> r.body]

\* A new instance on an empty directory, or on one an earlier run has written
\* (the memory backend loads its table from the snapshot): no lock is registered.
InitConc ==
    /\ backend \in Backends
    /\ now = 1
    /\ \E loaded \in BOOLEAN :
          /\ files = IF loaded /\ backend = "fs"
                     THEN [n \in { md5Hash(k) : k \in Keys } |->
                              Marshal(Preloaded[CHOOSE k \in Keys : md5Hash(k) = n])]
                     ELSE EmptyMap
          /\ data = IF loaded /\ backend = "memory" THEN Preloaded ELSE EmptyMap
    /\ locks = EmptyMap
    /\ mutex = [m \in MutexIds |-> Free]
    /\ hist = [k \in Keys |-> NoHist]
    /\ ret = NoReturn
    /\ pc = [p \in Procs |-> "idle"]
    /\ op = [p \in Procs |-> NoCall]
    /\ mtx = [p \in Procs |-> <<>>]
    /\ seen = [p \in Procs |-> {}]
    /\ base = [p \in Procs |-> {}]
    /\ list = [p \in Procs |-> NoScan]
    /\ acc = [p \in Procs |-> <<>>]
    /\ res = [p \in Procs |-> NoResult]
    /\ crashed = FALSE
    /\ wrote = FALSE
    /\ snap = <<>>
    /\ during = [p \in Procs |-> {}]

\* The Go runtime ends the process: no caller takes another step.
Fatal ==
    /\ crashed' = TRUE
    /\ pc' = [p \in Procs |-> "dead"]
    /\ op' = [p \in Procs |-> NoCall]
    /\ mtx' = [p \in Procs |-> <<>>]
    /\ seen' = [p \in Procs |-> {}]
    /\ base' = [p \in Procs |-> {}]
    /\ list' = [p \in Procs |-> NoScan]
    /\ acc' = [p \in Procs |-> <<>>]
    /\ res' = [p \in Procs |-> NoResult]
    /\ UNCHANGED <<backend, snap, during, now, files, data, locks, mutex, hist, ret, wrote>>

\* A caller enters Put, Get or Delete.
CallKey(p, name, key, value) ==
    /\ pc[p] = "idle"
    /\ pc' = [pc EXCEPT ![p] = "lock"]
    /\ op' = [op EXCEPT ![p] = [name |-> name, key |-> key, value |-> value, pattern |-> <<>>]]
    /\ res' = [res EXCEPT ![p] = NoResult]
    /\ wrote' = (wrote \/ name \in {"Put", "Delete"})
    /\ UNCHANGED <<backend, snap, during, now, files, data, locks, mutex, hist, ret,
                   mtx, seen, base, list, acc, crashed>>

\* A caller enters GetPattern or DeleteAll: lockAll starts its range over s.locks.
CallAll(p, name, pattern) ==
    /\ pc[p] = "idle"
    /\ pc' = [pc EXCEPT ![p] = "lockAll"]
    /\ op' = [op EXCEPT ![p] = [name |-> name, key |-> <<>>, value |-> <<>>, pattern |-> pattern]]
    /\ res' = [res EXCEPT ![p] = NoResult]
    /\ base' = [base EXCEPT ![p] = DOMAIN locks]
    /\ seen' = [seen EXCEPT ![p] = {}]
    /\ UNCHANGED <<backend, snap, during, now, files, data, locks, mutex, hist, ret,
                   mtx, list, acc, crashed, wrote>>

\* lock: `if _, ok := s.locks[key]; !ok`
LockCheck(p) ==
    /\ pc[p] = "lock"
    /\ pc' = [pc EXCEPT ![p] = IF op[p].key \in DOMAIN locks THEN "lock_load" ELSE "lock_store"]
    /\ UNCHANGED <<backend, snap, during, now, files, data, locks, mutex, hist, ret,
                   op, mtx, seen, base, list, acc, res, crashed, wrote>>

\* lock: `s.locks[key] = &sync.Mutex{}`
LockStore(p) ==
    /\ pc[p] = "lock_store"
    /\ locks' = Store(locks, op[p].key, newMutex(op[p].key, p))
    /\ pc' = [pc EXCEPT ![p] = "lock_load"]
    /\ UNCHANGED <<backend, snap, during, now, files, data, mutex, hist, ret,
                   op, mtx, seen, base, list, acc, res, crashed, wrote>>

\* lock: the operand s.locks[key] of `s.locks[key].Lock()`
LockLoad(p) ==
    /\ pc[p] = "lock_load"
    /\ mtx' = [mtx EXCEPT ![p] = locks[op[p].key]]
    /\ pc' = [pc EXCEPT ![p] = "lock_acquire"]
    /\ UNCHANGED <<backend, snap, during, now, files, data, locks, mutex, hist, ret,
                   op, seen, base, list, acc, res, crashed, wrote>>

\* lock: Lock() returns once the mutex is free.
LockAcquire(p) ==
    /\ pc[p] = "lock_acquire"
    /\ mutex[mtx[p]] = Free
    /\ mutex' = [mutex EXCEPT ![mtx[p]] = p]
    /\ mtx' = [mtx EXCEPT ![p] = <<>>]
    /\ pc' = [pc EXCEPT ![p] = "body"]
    /\ UNCHANGED <<backend, snap, during, now, files, data, locks, hist, ret,
                   op, seen, base, list, acc, res, crashed, wrote>>

\* Get between lock and unlock.
GetBody(p) ==
    /\ pc[p] = "body" /\ op[p].name = "Get"
    /\ res' = [res EXCEPT ![p] =
                  Finished(p, IF backend = "fs" THEN fsGet(files, op[p].key)
                              ELSE memGet(data, op[p].key))]
    /\ pc' = [pc EXCEPT ![p] = "unlock"]
    /\ UNCHANGED <<backend, snap, during, now, files, data, locks, mutex, hist, ret,
                   op, mtx, seen, base, list, acc, crashed, wrote>>

\* memory Put between lock and unlock.
PutBody(p) ==
    /\ pc[p] = "body" /\ op[p].name = "Put" /\ backend = "memory"
    /\ data' = memPut(data, op[p].key, op[p].value, noExpiration).table
    /\ res' = [res EXCEPT ![p] = Finished(p, Result(Nil, <<>>))]
    /\ pc' = [pc EXCEPT ![p] = "unlock"]
    /\ during' = Track(data')
    /\ UNCHANGED <<backend, snap, now, files, locks, mutex, hist, ret,
                   op, mtx, seen, base, list, acc, crashed, wrote>>

\* fs Put, dumpToStorage up to Truncate(0): the file exists and is empty.
PutTruncate(p) ==
    /\ pc[p] = "body" /\ op[p].name = "Put" /\ backend = "fs"
    /\ files' = fsPut(files, op[p].key, op[p].value, noExpiration, "write").dir
    /\ pc' = [pc EXCEPT ![p] = "write"]
    /\ UNCHANGED <<backend, snap, during, now, data, locks, mutex, hist, ret,
                   op, mtx, seen, base, list, acc, res, crashed, wrote>>

\* fs Put, dumpToStorage from Write on.
PutWrite(p) ==
    /\ pc[p] = "write"
    /\ files' = fsPut(files, op[p].key, op[p].value, noExpiration, "none").dir
    /\ res' = [res EXCEPT ![p] = Finished(p, Result(Nil, <<>>))]
    /\ pc' = [pc EXCEPT ![p] = "unlock"]
    /\ UNCHANGED <<backend, snap, during, now, data, locks, mutex, hist, ret,
                   op, mtx, seen, base, list, acc, crashed, wrote>>

\* Delete between lock and unlock.
DeleteBody(p) ==
    /\ pc[p] = "body" /\ op[p].name = "Delete"
    /\ LET r == IF backend = "fs" THEN fsDelete(files, op[p].key, "none")
                ELSE [dir |-> files, err |-> memDelete(data, op[p].key).err]
       IN  /\ files' = r.dir
           /\ data' = IF backend = "memory" THEN memDelete(data, op[p].key).table ELSE data
           /\ res' = [res EXCEPT ![p] = Finished(p, Result(r.err, <<>>))]
    /\ pc' = [pc EXCEPT ![p] = "unlock"]
    /\ during' = Track(data')
    /\ UNCHANGED <<backend, snap, now, locks, mutex, hist, ret,
                   op, mtx, seen, base, list, acc, crashed, wrote>>

\* unlock: `s.locks[key].Unlock()` on the mutex registered now; the call returns.
Unlock(p) ==
    /\ pc[p] = "unlock"
    /\ mutex[locks[op[p].key]] # Free
    /\ mutex' = [mutex EXCEPT ![locks[op[p].key]] = Free]
    /\ pc' = [pc EXCEPT ![p] = "idle"]
    /\ op' = [op EXCEPT ![p] = NoCall]
    /\ UNCHANGED <<backend, snap, during, now, files, data, locks, hist, ret,
                   mtx, seen, base, list, acc, res, crashed, wrote>>

\* unlock of a mutex that is not locked: "fatal error: sync: unlock of unlocked mutex".
UnlockFatal(p) ==
    /\ pc[p] = "unlock"
    /\ mutex[locks[op[p].key]] = Free
    /\ Fatal

\* lockAll: the range over s.locks produces the next key. A key registered
\* after the range began may or may not be produced.
LockAllNext(p) ==
    /\ pc[p] = "lockAll"
    /\ \E key \in (DOMAIN locks) \ seen[p] :
          /\ seen' = [seen EXCEPT ![p] = seen[p] \cup {key}]
          /\ mtx' = [mtx EXCEPT ![p] = locks[key]]
    /\ pc' = [pc EXCEPT ![p] = "lockAll_acquire"]
    /\ UNCHANGED <<backend, snap, during, now, files, data, locks, mutex, hist, ret,
                   op, base, list, acc, res, crashed, wrote>>

LockAllAcquire(p) ==
    /\ pc[p] = "lockAll_acquire"
    /\ mutex[mtx[p]] = Free
    /\ mutex' = [mutex EXCEPT ![mtx[p]] = p]
    /\ mtx' = [mtx EXCEPT ![p] = <<>>]
    /\ pc' = [pc EXCEPT ![p] = "lockAll"]
    /\ UNCHANGED <<backend, snap, during, now, files, data, locks, hist, ret,
                   op, seen, base, list, acc, res, crashed, wrote>>

\* lockAll returns; the scan starts: getAllStorageKeys (fs) or the range over
\* s.data (memory), in some order.
List(p) ==
    /\ pc[p] = "lockAll" /\ op[p].name \in {"GetPattern", "DeleteAll"}
    /\ base[p] \subseteq seen[p]
    /\ \/ /\ backend = "fs"
          /\ list' = [list EXCEPT ![p] = [todo |-> getAllStorageKeys(files), known |-> {}]]
       \/ /\ backend = "memory"
          /\ \E order \in Perms(DOMAIN data) :
                list' = [list EXCEPT ![p] = [todo |-> order, known |-> DOMAIN data]]
    /\ acc' = [acc EXCEPT ![p] = <<>>]
    /\ base' = [base EXCEPT ![p] = {}]
    /\ pc' = [pc EXCEPT ![p] = "scan"]
    /\ UNCHANGED <<backend, snap, during, now, files, data, locks, mutex, hist, ret,
                   op, mtx, seen, res, crashed, wrote>>

\* One turn of the loop of GetPattern.
ScanSelect(p) ==
    /\ pc[p] = "scan" /\ op[p].name = "GetPattern"
    /\ list[p].todo # <<>>
    /\ LET key == Head(list[p].todo)
       IN  acc' = [acc EXCEPT ![p] =
                      acc[p] \o (IF backend = "fs" THEN fsSelect(files, key, op[p].pattern)
                                 ELSE IF key \in DOMAIN data
                                      THEN selectEntry(data[key], op[p].pattern)
                                      ELSE <<>>)]
    /\ list' = [list EXCEPT ![p].todo = Tail(list[p].todo)]
    /\ UNCHANGED <<backend, snap, during, now, files, data, locks, mutex, hist, ret,
                   pc, op, mtx, seen, base, res, crashed, wrote>>

\* One turn of the loop of DeleteAll.
ScanDelete(p) ==
    /\ pc[p] = "scan" /\ op[p].name = "DeleteAll"
    /\ list[p].todo # <<>>
    /\ LET key == Head(list[p].todo)
       IN  /\ files' = IF backend = "fs" THEN deleteStorage(files, key, "none").dir ELSE files
           /\ data' = IF backend = "memory" THEN Remove(data, key) ELSE data
    /\ list' = [list EXCEPT ![p].todo = Tail(list[p].todo)]
    /\ during' = Track(data')
    /\ UNCHANGED <<backend, snap, now, locks, mutex, hist, ret,
                   pc, op, mtx, seen, base, acc, res, crashed, wrote>>

\* memory: the range over s.data also produces a key that was added to the
\* table after the range began.
ScanAdded(p) ==
    /\ pc[p] \in {"scan", "marshal"} /\ backend = "memory"
    /\ \E key \in (DOMAIN data) \ list[p].known :
          list' = [list EXCEPT ![p] = [todo |-> <<key>> \o list[p].todo,
                                       known |-> list[p].known \cup {key}]]
    /\ UNCHANGED <<backend, snap, during, now, files, data, locks, mutex, hist, ret,
                   pc, op, mtx, seen, base, acc, res, crashed, wrote>>

\* The loop is over: the result is formed and the deferred unlockAll starts
\* its range over s.locks.
ScanDone(p) ==
    /\ pc[p] = "scan"
    /\ list[p].todo = <<>>
    /\ res' = [res EXCEPT ![p] =
                  Finished(p, IF op[p].name = "GetPattern"
                              THEN Result(Nil, Render(acc[p]))
                              ELSE Result(Nil, <<>>))]
    /\ list' = [list EXCEPT ![p] = NoScan]
    /\ acc' = [acc EXCEPT ![p] = <<>>]
    /\ base' = [base EXCEPT ![p] = DOMAIN locks]
    /\ seen' = [seen EXCEPT ![p] = {}]
    /\ pc' = [pc EXCEPT ![p] = "unlockAll"]
    /\ UNCHANGED <<backend, snap, during, now, files, data, locks, mutex, hist, ret,
                   op, mtx, crashed, wrote>>

\* unlockAll: `s.locks[key].Unlock()` for the next key of the range.
UnlockAllNext(p) ==
    /\ pc[p] = "unlockAll"
    /\ \E key \in (DOMAIN locks) \ seen[p] :
          /\ mutex[locks[key]] # Free
          /\ mutex' = [mutex EXCEPT ![locks[key]] = Free]
          /\ seen' = [seen EXCEPT ![p] = seen[p] \cup {key}]
    /\ UNCHANGED <<backend, snap, during, now, files, data, locks, hist, ret,
                   pc, op, mtx, base, list, acc, res, crashed, wrote>>

UnlockAllFatal(p) ==
    /\ pc[p] = "unlockAll"
    /\ \E key \in (DOMAIN locks) \ seen[p] : mutex[locks[key]] = Free
    /\ Fatal

\* unlockAll returns, and the call with it.
UnlockAllDone(p) ==
    /\ pc[p] = "unlockAll" /\ op[p].name \in {"GetPattern", "DeleteAll"}
    /\ base[p] \subseteq seen[p]
    /\ pc' = [pc EXCEPT ![p] = "idle"]
    /\ seen' = [seen EXCEPT ![p] = {}]
    /\ base' = [base EXCEPT ![p] = {}]
    /\ op' = [op EXCEPT ![p] = NoCall]
    /\ UNCHANGED <<backend, snap, during, now, files, data, locks, mutex, hist, ret,
                   mtx, list, acc, res, crashed, wrote>>

\* The maps s.locks and s.data are plain Go maps: a write that is not ordered
\* with another access of the same map is a data race, which the runtime may
\* detect ("fatal error: concurrent map writes", "... map read and map write",
\* "... map iteration and map write").
WritesLocks(p) == pc[p] = "lock_store"
ReadsLocks(p) == pc[p] \in {"lock", "lock_load", "unlock", "lockAll", "unlockAll"}
WritesData(p) ==
    /\ backend = "memory"
    /\ \/ pc[p] = "body" /\ op[p].name = "Put"
       \/ pc[p] = "body" /\ op[p].name = "Delete" /\ op[p].key \in DOMAIN data
       \/ pc[p] = "scan" /\ op[p].name = "DeleteAll" /\ list[p].todo # <<>>
ReadsData(p) ==
    /\ backend = "memory"
    /\ \/ pc[p] = "body" /\ op[p].name \in {"Get", "Delete"}
       \/ pc[p] = "scan" /\ op[p].name = "GetPattern"
       \/ pc[p] = "marshal"

MapRaceFatal ==
    /\ \E p, q \in Procs :
          /\ p # q
          /\ \/ WritesLocks(p) /\ (WritesLocks(q) \/ ReadsLocks(q))
             \/ WritesData(p) /\ (WritesData(q) \/ ReadsData(q))
    /\ Fatal

Step(p) ==
    \/ LockCheck(p) \/ LockStore(p) \/ LockLoad(p) \/ LockAcquire(p)
    \/ GetBody(p) \/ PutBody(p) \/ PutTruncate(p) \/ PutWrite(p) \/ DeleteBody(p)
    \/ Unlock(p) \/ UnlockFatal(p)
    \/ LockAllNext(p) \/ LockAllAcquire(p) \/ List(p)
    \/ ScanSelect(p) \/ ScanDelete(p) \/ ScanAdded(p) \/ ScanDone(p)
    \/ UnlockAllNext(p) \/ UnlockAllFatal(p) \/ UnlockAllDone(p)

NextConc ==
    \/ \E p \in Procs, key \in Keys :
          \/ CallKey(p, "Get", key, <<>>)
          \/ CallKey(p, "Delete", key, <<>>)
          \/ \E value \in ConcValues : CallKey(p, "Put", key, value)
    \/ \E p \in Procs, pattern \in ConcPatterns :
          \/ CallAll(p, "GetPattern", pattern)
          \/ CallAll(p, "DeleteAll", <<>>)
    \/ \E p \in Procs : Step(p)
    \/ MapRaceFatal

SpecConc == InitConc /\ [][NextConc]_vars

---------------------------------------------------------------------------
(* SpecSnap: the memory backend with its snapshot file: one caller, and the *)
(* goroutine that NewMemoryStorage starts                                   *)

Caller == "p1"
Background == "p2"
Dumps == {"Flush", "Tick"}

\* The goroutine after `case <-storage.quit`: ticker.Stop() and return.
QuitCaseLoops == "idle"
QuitCase == "stopped"

\* The table of a new instance is what NewMemoryStorage read from memory.db.
InitSnap ==
    /\ backend = "memory"
    /\ now = 1
    /\ files = EmptyMap
    /\ snap \in { <<>>, MarshalTable(Preloaded) }
    /\ data = NewMemoryStorage(snap).table
    /\ locks = EmptyMap
    /\ mutex = [m \in MutexIds |-> Free]
    /\ hist = [k \in Keys |-> NoHist]
    /\ ret = NoReturn
    /\ pc = [p \in Procs |-> "idle"]
    /\ op = [p \in Procs |-> NoCall]
    /\ mtx = [p \in Procs |-> <<>>]
    /\ seen = [p \in Procs |-> {}]
    /\ base = [p \in Procs |-> {}]
    /\ list = [p \in Procs |-> NoScan]
    /\ acc = [p \in Procs |-> <<>>]
    /\ res = [p \in Procs |-> NoResult]
    /\ crashed = FALSE
    /\ wrote = FALSE
    /\ during = [p \in Procs |-> {}]

\* dumpToFilesystem is entered, by Flush or by the goroutine on a tick of the
\* ticker: lockAll starts its range over s.locks.
DumpStart(p, name) ==
    /\ pc[p] = "idle"
    /\ pc' = [pc EXCEPT ![p] = "lockAll"]
    /\ op' = [op EXCEPT ![p] = [name |-> name, key |-> <<>>, value |-> <<>>, pattern |-> <<>>]]
    /\ res' = [res EXCEPT ![p] = NoResult]
    /\ base' = [base EXCEPT ![p] = DOMAIN locks]
    /\ seen' = [seen EXCEPT ![p] = {}]
    /\ during' = [during EXCEPT ![p] = {data}]
    /\ UNCHANGED <<backend, snap, now, files, data, locks, mutex, hist, ret,
                   mtx, list, acc, crashed, wrote>>

\* dumpToFilesystem: lockAll returned; getWriter, Truncate(0), Seek(0, 0); then
\* json.Marshal starts its range over s.data.
DumpTruncate(p) ==
    /\ pc[p] = "lockAll" /\ op[p].name \in Dumps
    /\ base[p] \subseteq seen[p]
    /\ snap' = <<>>
    /\ \E order \in Perms(DOMAIN data) :
          list' = [list EXCEPT ![p] = [todo |-> order, known |-> DOMAIN data]]
    /\ acc' = [acc EXCEPT ![p] = <<>>]
    /\ base' = [base EXCEPT ![p] = {}]
    /\ pc' = [pc EXCEPT ![p] = "marshal"]
    /\ UNCHANGED <<backend, during, now, files, data, locks, mutex, hist, ret,
                   op, mtx, seen, res, crashed, wrote>>

\* json.Marshal(s.data) reads one entry of the table.
MarshalEntry(p) ==
    /\ pc[p] = "marshal"
    /\ list[p].todo # <<>>
    /\ LET key == Head(list[p].todo)
       IN  acc' = [acc EXCEPT ![p] =
                      IF key \in DOMAIN data THEN Append(acc[p], data[key]) ELSE acc[p]]
    /\ list' = [list EXCEPT ![p].todo = Tail(list[p].todo)]
    /\ UNCHANGED <<backend, snap, during, now, files, data, locks, mutex, hist, ret,
                   pc, op, mtx, seen, base, res, crashed, wrote>>

\* The table that json.Marshal has read.
Marshalled(p) ==
    [k \in { acc[p][i].Key : i \in DOMAIN acc[p] } |->
        acc[p][CHOOSE i \in DOMAIN acc[p] : acc[p][i].Key = k]]

\* dumpToFilesystem: f.Write(data), f.Sync(); the deferred unlockAll starts its
\* range over s.locks.
DumpWrite(p) ==
    /\ pc[p] = "marshal"
    /\ list[p].todo = <<>>
    /\ snap' = WriteAtStart(MarshalTable(Marshalled(p)), snap)
    /\ list' = [list EXCEPT ![p] = NoScan]
    /\ acc' = [acc EXCEPT ![p] = <<>>]
    /\ during' = [during EXCEPT ![p] = {}]
    /\ base' = [base EXCEPT ![p] = DOMAIN locks]
    /\ seen' = [seen EXCEPT ![p] = {}]
    /\ pc' = [pc EXCEPT ![p] = "unlockAll"]
    /\ UNCHANGED <<backend, now, files, data, locks, mutex, hist, ret,
                   op, mtx, res, crashed, wrote>>

\* dumpToFilesystem returns: Flush goes on to `s.quit <- true`, the goroutine
\* goes back to its select.
DumpDone(p) ==
    /\ pc[p] = "unlockAll" /\ op[p].name \in Dumps
    /\ base[p] \subseteq seen[p]
    /\ pc' = [pc EXCEPT ![p] = IF op[p].name = "Flush" THEN "quit" ELSE "idle"]
    /\ op' = [op EXCEPT ![p] = IF op[p].name = "Flush" THEN op[p] ELSE NoCall]
    /\ seen' = [seen EXCEPT ![p] = {}]
    /\ base' = [base EXCEPT ![p] = {}]
    /\ UNCHANGED <<backend, snap, during, now, files, data, locks, mutex, hist, ret,
                   mtx, list, acc, res, crashed, wrote>>

\* The unbuffered channel s.quit: the send of Flush and the receive of the
\* goroutine's select happen together; Flush returns.
QuitHandoff ==
    /\ pc[Caller] = "quit"
    /\ pc[Background] = "idle"
    /\ pc' = [pc EXCEPT ![Caller] = "flushed", ![Background] = QuitCase]
    /\ op' = [op EXCEPT ![Caller] = NoCall]
    /\ UNCHANGED <<backend, snap, during, now, files, data, locks, mutex, hist, ret,
                   mtx, seen, base, list, acc, res, crashed, wrote>>

NextSnap ==
    \/ \E key \in Keys :
          \/ CallKey(Caller, "Get", key, <<>>)
          \/ CallKey(Caller, "Delete", key, <<>>)
          \/ \E value \in ConcValues : CallKey(Caller, "Put", key, value)
    \/ \E pattern \in ConcPatterns : CallAll(Caller, "GetPattern", pattern)
    \/ CallAll(Caller, "DeleteAll", <<>>)
    \/ DumpStart(Caller, "Flush")
    \/ DumpStart(Background, "Tick")
    \/ \E p \in Procs :
          \/ LockCheck(p) \/ LockStore(p) \/ LockLoad(p) \/ LockAcquire(p)
          \/ GetBody(p) \/ PutBody(p) \/ DeleteBody(p)
          \/ Unlock(p) \/ UnlockFatal(p)
          \/ LockAllNext(p) \/ LockAllAcquire(p) \/ List(p)
          \/ ScanSelect(p) \/ ScanDelete(p) \/ ScanAdded(p) \/ ScanDone(p)
          \/ UnlockAllNext(p) \/ UnlockAllFatal(p) \/ UnlockAllDone(p)
          \/ DumpTruncate(p) \/ MarshalEntry(p) \/ DumpWrite(p) \/ DumpDone(p)
    \/ QuitHandoff
    \/ MapRaceFatal

SpecSnap == InitSnap /\ [][NextSnap]_vars

\* The steps of goroutine p inside a call or a checkpoint it has begun.
SnapStep(p) ==
    \/ LockCheck(p) \/ LockStore(p) \/ LockLoad(p) \/ LockAcquire(p)
    \/ GetBody(p) \/ PutBody(p) \/ DeleteBody(p)
    \/ Unlock(p) \/ UnlockFatal(p)
    \/ LockAllNext(p) \/ LockAllAcquire(p) \/ List(p)
    \/ ScanSelect(p) \/ ScanDelete(p) \/ ScanAdded(p) \/ ScanDone(p)
    \/ UnlockAllNext(p) \/ UnlockAllFatal(p) \/ UnlockAllDone(p)
    \/ DumpTruncate(p) \/ MarshalEntry(p) \/ DumpWrite(p) \/ DumpDone(p)

\* The Go scheduler runs every goroutine that can take a step, and completes
\* a channel operation whose two sides are ready.
SpecSnapFair ==
    /\ SpecSnap
    /\ \A p \in Procs : WF_vars(SnapStep(p))
    /\ WF_vars(QuitHandoff)

---------------------------------------------------------------------------
(* Pattern queries over keys and values of any characters (SpecGlob) *)

\* Keys and values with a path separator, a double quote and a backslash.
GlobKeys == { <<"a">>, <<"a", "/", "b">>, <<"a", "\"">>, <<"\\">> }
GlobValues == { <<"x">>, <<"\"">> }
GlobPatterns == { <<"*">>, <<"a", "*">>, <<"?">>, <<"a", "?", "b">>, <<"a", "[">>, <<"[">> }

InitGlob ==
    /\ backend \in Backends
    /\ now = 1
    /\ files = EmptyMap
    /\ data = EmptyMap
    /\ locks = EmptyMap
    /\ mutex = [m \in MutexIds |-> Free]
    /\ hist = [k \in GlobKeys |-> NoHist]
    /\ ret = NoReturn
    /\ IdleConc

NextGlob ==
    \/ \E key \in GlobKeys, value \in GlobValues : Put(key, value, noExpiration, "none")
    \/ \E pattern \in GlobPatterns : GetPattern(pattern)

SpecGlob == InitGlob /\ [][NextGlob]_vars

---------------------------------------------------------------------------
(* Both backends side by side (SpecBoth): every call is made on an instance
   of each backend, with the same arguments at the same instant, and no
   operation of the operating system fails *)

BothKeys == { <<"a">>, <<"a", InvalidByte>> }
BothPatterns == { <<"*">>, <<"a", "*">>, <<"?">>, <<"a", InvalidByte>>, <<"[">> }

\* What a caller sees of one call: the error, the bytes of the reader, and for
\* GetPattern the objects of the array.
Outcome(err, body, objs) == [err |-> err, body |-> body, objs |-> objs]

BothReturned(name, key, pattern, f, m) ==
    [op |-> name, key |-> key, pattern |-> pattern, fs |-> f, mem |-> m]

InitBoth ==
    /\ backend = "both"
    /\ now = 1
    /\ files = EmptyMap
    /\ data = EmptyMap
    /\ locks = EmptyMap
    /\ mutex = [m \in MutexIds |-> Free]
    /\ hist = [k \in Keys |-> NoHist]
    /\ ret = NoReturn
    /\ IdleConc

BothPut(key, value, expiration) ==
    LET f == fsPut(files, key, value, expiration, "none")
        m == memPut(data, key, value, expiration)
    IN  /\ files' = f.dir
        /\ data' = m.table
        /\ ret' = BothReturned("Put", key, <<>>, Outcome(f.err, <<>>, {}),
                               Outcome(m.err, <<>>, {}))
        /\ UNCHANGED <<backend, snap, during, now, locks, mutex, hist, concVars>>

BothGet(key) ==
    LET f == fsGet(files, key)
        m == memGet(data, key)
    IN  /\ ret' = BothReturned("Get", key, <<>>, Outcome(f.err, f.body, {}),
                               Outcome(m.err, m.body, {}))
        /\ UNCHANGED <<backend, snap, during, now, files, data, locks, mutex, hist,
                       concVars>>

\* order: the order in which range s.data produces the keys.
BothGetPattern(pattern, order) ==
    LET keys == getAllStorageKeys(files)
        f == fsGetPattern(files, pattern)
        m == memGetPattern(data, order, pattern)
        fobjs == Flatten([i \in DOMAIN keys |-> fsSelect(files, keys[i], pattern)])
        mobjs == Flatten([i \in DOMAIN order |-> selectEntry(data[order[i]], pattern)])
    IN  /\ ret' = BothReturned("GetPattern", <<>>, pattern,
                               Outcome(f.err, f.body, Range(fobjs)),
                               Outcome(m.err, m.body, Range(mobjs)))
        /\ UNCHANGED <<backend, snap, during, now, files, data, locks, mutex, hist,
                       concVars>>

BothDelete(key) ==
    LET f == fsDelete(files, key, "none")
        m == memDelete(data, key)
    IN  /\ files' = f.dir
        /\ data' = m.table
        /\ ret' = BothReturned("Delete", key, <<>>, Outcome(f.err, <<>>, {}),
                               Outcome(m.err, <<>>, {}))
        /\ UNCHANGED <<backend, snap, during, now, locks, mutex, hist, concVars>>

BothDeleteAll ==
    LET f == fsDeleteAll(files, {})
        m == memDeleteAll(data)
    IN  /\ files' = f.dir
        /\ data' = m.table
        /\ ret' = BothReturned("DeleteAll", <<>>, <<>>, Outcome(f.err, <<>>, {}),
                               Outcome(m.err, <<>>, {}))
        /\ UNCHANGED <<backend, snap, during, now, locks, mutex, hist, concVars>>

NextBoth ==
    \/ \E key \in BothKeys, value \in Values, expiration \in Durations :
          BothPut(key, value, expiration)
    \/ \E key \in BothKeys : BothGet(key)
    \/ \E pattern \in BothPatterns, order \in Perms(DOMAIN data) :
          BothGetPattern(pattern, order)
    \/ \E key \in BothKeys : BothDelete(key)
    \/ BothDeleteAll
    \/ Tick

SpecBoth == InitBoth /\ [][NextBoth]_vars

---------------------------------------------------------------------------
(* HTTP adapter: the answer of each handler to the outcome of its storage call *)

StatusOK == 200
StatusNoContent == 204
StatusNotFound == 404
StatusInternalServerError == 500

Response(status, body) == [status |-> status, body |-> body]

\* http.Error(w, http.StatusText(code), code)
Error(code) == Response(code, <<"StatusText", code>>)

\* Server.putHandler without a read or expire_in error; r is the outcome of
\* s.storage.Put.
putHandler(r) ==
    IF r.err # Nil THEN Error(StatusInternalServerError)
    ELSE Response(StatusNoContent, <<>>)

deleteHandlerNoContent(r) == Response(StatusNoContent, <<>>)
\* Server.deleteHandler; r is the outcome of s.storage.Delete or DeleteAll.
deleteHandler(r) ==
    IF IsNotExist(r.err) THEN Error(StatusNotFound)
    ELSE IF r.err # Nil THEN Error(StatusInternalServerError)
    ELSE Response(StatusNoContent, <<>>)

\* Server.headHandler; r is the outcome of s.storage.Get. Nothing is written
\* on success: the status is 200 and the body is empty.
headHandler(r) ==
    IF IsNotExist(r.err) THEN Error(StatusNotFound)
    ELSE IF r.err # Nil THEN Error(StatusInternalServerError)
    ELSE Response(StatusOK, <<>>)

\* Server.getHandler; r is the outcome of s.storage.Get or GetPattern. When
\* IsNotExist is false, err is assigned anew by ioutil.ReadAll(r), which reads
\* the bytes.Reader the storage returned (an empty one with every error) and
\* returns nil; streamToWriter then writes the bytes with status 200.
getHandler(r) ==
    IF IsNotExist(r.err) THEN Error(StatusNotFound)
    ELSE Response(StatusOK, r.body)

---------------------------------------------------------------------------
(* PUT /keys/{id}?expire_in=N and GET /keys/{id} (SpecExpire) *)

StatusBadRequest == 400

\* time.Second in ticks of the clock of the model.
Second == 2

DigitChars == <<"0", "1", "2", "3", "4", "5", "6", "7", "8", "9">>
DigitValue(c) == (CHOOSE i \in DOMAIN DigitChars : DigitChars[i] = c) - 1

\* The values of expire_in of the requests: absent, a text that is no
\* number, small numbers, the numbers around the largest duration in seconds,
\* the largest int, and a number above it.
ExpireIns ==
    { <<>>, <<"x">>, <<"0">>, <<"1">>, <<"7">>, <<"8">>, <<"1", "5">>, <<"1", "6">> }

RECURSIVE Decimal(_)
Decimal(s) == IF s = <<>> THEN 0 ELSE 10 * Decimal(SubSeq(s, 1, Len(s) - 1)) + DigitValue(s[Len(s)])

errSyntax == "invalid syntax"
errRange == "value out of range"

\* strconv.Atoi on a text without sign: a character that is no digit is a
\* syntax error, a number above the largest int is a range error.
Atoi(s) ==
    IF s = <<>> \/ \E i \in DOMAIN s : s[i] \notin Range(DigitChars)
    THEN [n |-> 0, err |-> errSyntax]
    ELSE IF Decimal(s) > MaxInt THEN [n |-> MaxInt, err |-> errRange]
    ELSE [n |-> Decimal(s), err |-> Nil]

\* time.Duration(time.Duration(expirationDuration) * time.Second)
expiration(expirationDuration) == Wrap(expirationDuration * Second)

Answered(name, key, expireIn, response) ==
    [op |-> name, key |-> key, expireIn |-> expireIn, status |-> response.status,
     body |-> response.body]

InitExpire == Init

\* Server.putHandler and the Put of the backend.
PutRequest(key, value, expireIn) ==
    /\ LET a == Atoi(expireIn)
           d == IF Len(expireIn) > 0 THEN expiration(a.n) ELSE noExpiration
           f == fsPut(files, key, value, d, "none")
           m == memPut(data, key, value, d)
       IN  IF Len(expireIn) > 0 /\ a.err # Nil
           THEN /\ ret' = Answered("PUT", key, expireIn, Error(StatusBadRequest))
                /\ UNCHANGED <<files, data, hist>>
           ELSE /\ files' = IF backend = "fs" THEN f.dir ELSE files
                /\ data' = IF backend = "memory" THEN m.table ELSE data
                /\ hist' = [hist EXCEPT ![key] =
                               [kind |-> "put", value |-> value,
                                expires |-> Len(expireIn) > 0,
                                deadline |-> IF Len(expireIn) > 0
                                             THEN now + a.n * Second ELSE 0,
                                cleared |-> FALSE]]
                /\ ret' = Answered("PUT", key, expireIn,
                                   putHandler(IF backend = "fs" THEN f ELSE m))
    /\ UNCHANGED <<backend, snap, during, now, locks, mutex, concVars>>

\* Server.getHandler for /keys/{id} and the Get of the backend.
GetRequest(key) ==
    /\ ret' = Answered("GET", key, <<>>,
                       getHandler(IF backend = "fs" THEN fsGet(files, key)
                                  ELSE memGet(data, key)))
    /\ UNCHANGED <<backend, snap, during, now, files, data, locks, mutex, hist, concVars>>

NextExpire ==
    \/ \E key \in Keys, value \in Values, expireIn \in ExpireIns :
          PutRequest(key, value, expireIn)
    \/ \E key \in Keys : GetRequest(key)
    \/ Tick

SpecExpire == InitExpire /\ [][NextExpire]_vars

---------------------------------------------------------------------------
(* Properties of the facade, one caller at a time (Spec) *)

Stored(k) == IF backend = "fs" THEN md5Hash(k) \in DOMAIN files ELSE k \in DOMAIN data

StoreEmpty == DOMAIN files = {} /\ DOMAIN data = {}

\* Shell-style matching of a whole key, stated without an algorithm: the key
\* is cut into one piece per pattern element; `*` takes any piece, `?` and a
\* literal take one character.
WholeMatch(pattern, key) ==
    \E cut \in [0..Len(pattern) -> 0..Len(key)] :
        /\ cut[0] = 0
        /\ cut[Len(pattern)] = Len(key)
        /\ \A i \in 1..Len(pattern) :
              /\ cut[i - 1] <= cut[i]
              /\ pattern[i] # "*" =>
                    /\ cut[i] = cut[i - 1] + 1
                    /\ pattern[i] = "?" \/ key[cut[i]] = pattern[i]

\* The keys GetPattern has to report for `pattern` now.
Selected(pattern) ==
    { k \in Keys : hist[k].kind = "put" /\ ~PastDeadline(k) /\ WholeMatch(pattern, k) }

Object(k) == <<"{", "\"">> \o k \o <<"\"", ":", "\"">> \o hist[k].value \o <<"\"", "}">>

\* C1: in both backends, when Put(k, v, no expiration) has returned nil, a later
\* Get(k) with no Put, Delete or DeleteAll on k in between returns nil and
\* exactly v.
C1_PutThenGet ==
    (ret.op = "Get" /\ hist[ret.key].kind = "put" /\ ~hist[ret.key].expires
        /\ ~hist[ret.key].cleared)
    => (ret.err = Nil /\ ret.body = hist[ret.key].value)

C1_Witness ==
    /\ ret.op = "Get" /\ backend = "fs" /\ now > 1
    /\ hist[ret.key].kind = "put" /\ ~hist[ret.key].expires /\ ~hist[ret.key].cleared
    /\ ret.err = Nil /\ ret.body = <<"y">>
    /\ \E k \in Keys : k # ret.key /\ hist[k].kind = "put" /\ hist[k].value = <<"x">>

\* C2: after Put(k, v, d) returned at time t, a Get(k) at a time strictly later
\* than t + d, the Put still being the last call that touched k, returns
\* errNotExists and an empty stream, and the entry is still in the directory
\* or table.
C2_ExpiredIsAbsent ==
    (ret.op = "Get" /\ hist[ret.key].kind = "put" /\ PastDeadline(ret.key))
    => (ret.err = errNotExists /\ ret.body = <<>> /\ Stored(ret.key))

C2_Witness ==
    /\ ret.op = "Get" /\ hist[ret.key].kind = "put" /\ PastDeadline(ret.key)
    /\ hist[ret.key].deadline > 1
    /\ ret.err = errNotExists /\ Stored(ret.key)

\* C3: Delete(k) on a key that holds an entry returns nil (when os.Remove does
\* not fail), and after a Delete(k) that returned nil every Get(k) returns
\* errNotExists until the next Put on k.
C3_DeleteThenGet ==
    /\ (ret.op = "Delete" /\ ret.pre \in {"put", "expired"} /\ ret.fault = "none")
          => ret.err = Nil
    /\ (ret.op = "Get" /\ hist[ret.key].kind = "del")
          => (ret.err = errNotExists /\ ret.body = <<>>)

C3_Witness ==
    /\ ret.op = "Get" /\ hist[ret.key].kind = "del" /\ ret.err = errNotExists
    /\ \E k \in Keys : k # ret.key /\ hist[k].kind = "put"

\* C4: Delete(k) on a key that was never written, or whose entry was removed
\* and not written again, returns errNotExists (when os.Remove does not fail
\* for another reason) and changes no stored entry.
C4_DeleteAbsent ==
    [][\A k \in Keys :
          (Delete(k, "none") /\ hist[k].kind \in {"none", "del", "delall"})
          => (ret'.err = errNotExists /\ files' = files /\ data' = data)]_vars

C4_Witness ==
    /\ ret.op = "Delete" /\ ret.pre = "del" /\ ret.fault = "none"
    /\ ret.err = errNotExists
    /\ \E k \in Keys : k # ret.key /\ hist[k].kind = "put" /\ Stored(k)

\* C5: after DeleteAll() returned nil, and until a later Put, Get(k) returns
\* errNotExists for every key written before the DeleteAll, and
\* GetPattern("*") returns the empty array.
C5_DeleteAllClears ==
    /\ (ret.op = "Get" /\ hist[ret.key].cleared) => ret.err = errNotExists
    /\ (ret.op = "GetPattern" /\ ret.pattern = <<"*">>
           /\ (\E k \in Keys : hist[k].cleared)
           /\ (\A k \in Keys : hist[k].cleared \/ hist[k].kind = "none"))
       => ret.body = <<"[", "]">>

\* C6: with one caller, GetPattern(p) returns nil and exactly one object
\* {"key":"value"} for every stored entry whose whole key matches p and whose
\* deadline has not passed, in any order, and nothing else.
C6_GetPatternSelects ==
    (ret.op = "GetPattern" /\ \A k \in Keys : hist[k].kind # "putfail")
    => /\ ret.err = Nil
       /\ \E order \in Perms(Selected(ret.pattern)) :
             ret.body = Render([i \in DOMAIN order |-> Object(order[i])])

C6_Witness ==
    /\ ret.op = "GetPattern" /\ ret.pattern = <<"a", "?">>
    /\ \A k \in Keys : hist[k].kind = "put"
    /\ PastDeadline(<<"a">>) /\ ~PastDeadline(<<"a", "b">>)
    /\ ret.body = <<"[", "{", "\"", "a", "b", "\"", ":", "\"", "y", "\"", "}", "]">>

\* C7: on a store that holds no entry, GetPattern(p) returns nil and the empty
\* array "[]" for every pattern p.
C7_GetPatternEmpty ==
    (ret.op = "GetPattern" /\ StoreEmpty) => (ret.err = Nil /\ ret.body = <<"[", "]">>)

C7_Witness ==
    /\ ret.op = "GetPattern" /\ StoreEmpty /\ ret.pattern = <<"*">>
    /\ ret.err = Nil /\ ret.body = <<"[", "]">>
    /\ \E k \in Keys : hist[k].kind = "del"

\* The file of key k holds bytes that json.Unmarshal rejects / holds no byte.
Undecodable(k) == md5Hash(k) \in DOMAIN files /\ files[md5Hash(k)].kind = "partial"
EmptyFile(k) == md5Hash(k) \in DOMAIN files /\ files[md5Hash(k)].kind = "empty"

\* C15: Delete(k) on a key whose entry exists and whose deadline has passed
\* returns errNotExists, in both backends.
C15_DeleteExpired ==
    [][\A k \in Keys :
          (Delete(k, "none") /\ hist[k].kind = "put" /\ PastDeadline(k))
          => ret'.err = errNotExists]_vars

\* C16: fs Get(k) on a key whose file exists and cannot be decoded returns an
\* error for which IsNotExist is true.
C16_UndecodableIsNotFound ==
    (ret.op = "Get" /\ backend = "fs" /\ Undecodable(ret.key)) => IsNotExist(ret.err)

\* C17: fs GetPattern(p), with files in the directory that are empty or cannot
\* be decoded, returns nil and exactly the objects of the matching, unexpired
\* entries of the other files.
C17_GetPatternSkipsBadFiles ==
    (ret.op = "GetPattern" /\ backend = "fs"
        /\ \E k \in Keys : Undecodable(k) \/ EmptyFile(k))
    => /\ ret.err = Nil
       /\ \E order \in Perms(Selected(ret.pattern)) :
             ret.body = Render([i \in DOMAIN order |-> Object(order[i])])

C17_Witness ==
    /\ ret.op = "GetPattern" /\ backend = "fs" /\ ret.pattern = <<"*">>
    /\ Undecodable(<<"a">>) /\ hist[<<"a", "b">>].kind = "put"
    /\ ret.err = Nil
    /\ ret.body = <<"[", "{", "\"", "a", "b", "\"", ":", "\"", "x", "\"", "}", "]">>

\* The entry that the directory or table holds for key k.
StoredEntry(k) == IF backend = "fs" THEN Unmarshal(files[md5Hash(k)]).entry ELSE data[k]

\* C20: Put(k, v2, e2) on a key that holds an entry, expired or not, returns
\* nil (when the operating system fails no step) and leaves exactly the entry
\* (k, v2, deadline of e2): no deadline for no expiration, now + e2 otherwise.
C20_PutReplaces ==
    (ret.op = "Put" /\ ret.pre \in {"put", "expired"} /\ ret.fault = "none")
    => /\ ret.err = Nil
       /\ Stored(ret.key)
       /\ StoredEntry(ret.key) =
             [Key |-> ret.key, Value |-> hist[ret.key].value,
              Expiration |-> IF hist[ret.key].expires THEN hist[ret.key].deadline ELSE 0]
       /\ hist[ret.key].expires => hist[ret.key].deadline >= now

C20_Witness ==
    /\ ret.op = "Put" /\ ret.pre = "expired" /\ ret.err = Nil
    /\ ~hist[ret.key].expires /\ StoredEntry(ret.key).Expiration = 0
    /\ StoredEntry(ret.key).Value = <<"y">>

\* C21: IsNotExist is true for errNotExists and false for nil and for every
\* other error; Get and Delete on a key that holds nothing return an error
\* that IsNotExist recognises, and the error of a failed os.Remove or of an
\* undecodable file is not recognised.
C21_IsNotExistExact ==
    /\ \A e \in {Nil, errNotExists, errIO} : IsNotExist(e) <=> e = errNotExists
    /\ (ret.op \in {"Get", "Delete"} /\ ret.pre \in {"none", "del", "delall"}
          /\ ret.fault = "none")
       => IsNotExist(ret.err)
    /\ (ret.op = "Delete" /\ ret.fault = "remove")
       => ret.err # Nil /\ ~IsNotExist(ret.err)
    /\ (ret.op = "Get" /\ backend = "fs" /\ Undecodable(ret.key))
       => ret.err # Nil /\ ~IsNotExist(ret.err)
    /\ ret.err = Nil => ~IsNotExist(ret.err)

C21_Witness ==
    /\ ret.op = "Delete" /\ ret.pre = "del" /\ ret.fault = "none"
    /\ IsNotExist(ret.err)

\* C24: in the filesystem backend, after a Put(k, v, e) that returned nil, a
\* new instance on the same directory (its lock registry does not hold k)
\* returns nil and v for Get(k) as long as the entry has not expired and no
\* Delete or DeleteAll has removed it.
C24_PutSurvivesRestart ==
    [][\A k \in Keys :
          (/\ Get(k) /\ backend = "fs" /\ k \notin DOMAIN locks
           /\ hist[k].kind \in {"put", "torn"} /\ ~PastDeadline(k))
          => (ret'.err = Nil /\ ret'.body = hist[k].value)]_vars

\* C25: for GET, HEAD and DELETE on /keys/{id}, a storage outcome of
\* errNotExists is answered with 404 and every other storage error with 500.
C25_ErrorsMapToStatus ==
    /\ (ret.op = "Get" /\ IsNotExist(ret.err))
       => getHandler(ret).status = StatusNotFound
          /\ headHandler(ret).status = StatusNotFound
    /\ (ret.op = "Get" /\ ret.err # Nil /\ ~IsNotExist(ret.err))
       => getHandler(ret).status = StatusInternalServerError
          /\ headHandler(ret).status = StatusInternalServerError
    /\ (ret.op = "Delete" /\ IsNotExist(ret.err))
       => deleteHandler(ret).status = StatusNotFound
    /\ (ret.op = "Delete" /\ ret.err # Nil /\ ~IsNotExist(ret.err))
       => deleteHandler(ret).status = StatusInternalServerError

\* C26: with no I/O failure, PUT /keys/{k} answers 204; GET of a key that
\* holds an unexpired entry answers 200 with exactly its value and HEAD 200
\* with an empty body; DELETE /keys/{k} answers 204 when the key holds an
\* entry and 404 when it holds none; DELETE /keys answers 204, and GET of a
\* key that it removed answers 404.
C26_HttpRoundTrip ==
    /\ (ret.op = "Put" /\ ret.fault = "none")
       => putHandler(ret) = Response(StatusNoContent, <<>>)
    /\ (ret.op = "Get" /\ hist[ret.key].kind = "put" /\ ~PastDeadline(ret.key))
       => getHandler(ret) = Response(StatusOK, hist[ret.key].value)
          /\ headHandler(ret) = Response(StatusOK, <<>>)
    /\ (ret.op = "Delete" /\ ret.fault = "none" /\ ret.pre \in {"put", "expired"})
       => deleteHandler(ret) = Response(StatusNoContent, <<>>)
    /\ (ret.op = "Delete" /\ ret.fault = "none" /\ ret.pre \in {"none", "del", "delall"})
       => deleteHandler(ret).status = StatusNotFound
    /\ (ret.op = "DeleteAll" /\ ret.fault = "none")
       => deleteHandler(ret) = Response(StatusNoContent, <<>>)
    /\ (ret.op = "Get" /\ hist[ret.key].kind = "delall")
       => getHandler(ret).status = StatusNotFound

C26_Witness ==
    /\ ret.op = "Get" /\ hist[ret.key].kind = "delall"
    /\ getHandler(ret).status = StatusNotFound
    /\ \E k \in Keys : hist[k].kind = "put" /\ Stored(k)

\* The directory and the table hold for key j after the step what they held
\* before it.
Kept(j) ==
    /\ md5Hash(j) \in DOMAIN files <=> md5Hash(j) \in DOMAIN files'
    /\ md5Hash(j) \in DOMAIN files => files'[md5Hash(j)] = files[md5Hash(j)]
    /\ j \in DOMAIN data <=> j \in DOMAIN data'
    /\ j \in DOMAIN data => data'[j] = data[j]

\* C31: the step of a Put or a Delete on key k (ret' is its return), whether
\* it returns nil or an error, leaves the entry of every other key as it was.
C31_OtherKeysUntouched ==
    [][ret'.op \in {"Put", "Delete"} => \A j \in Keys \ {ret'.key} : Kept(j)]_vars

C31_Witness ==
    /\ ret.op = "Delete" /\ ret.pre = "put" /\ ret.err = Nil /\ ~Stored(ret.key)
    /\ \E j \in Keys \ {ret.key} : hist[j].kind = "put" /\ Stored(j)

\* C32: a Get, a GetPattern and the passing of time leave the directory
\* and the table as they are: an expired entry that is read stays stored.
C32_ReadsChangeNothing ==
    [][ret'.op \in {"Get", "GetPattern", "none"} => (files' = files /\ data' = data)]_vars

C32_Witness ==
    /\ ret.op = "Get" /\ hist[ret.key].kind = "put" /\ PastDeadline(ret.key)
    /\ ret.err = errNotExists /\ Stored(ret.key)
    /\ StoredEntry(ret.key).Value = hist[ret.key].value

\* C33: a Put without expiration stores the deadline 0 and a Put with a
\* duration d >= 0 stores the time of the Put plus d; Get returns the value of
\* an entry without deadline at every time, and the value of an entry with a
\* deadline at every time up to and including the deadline, and errNotExists
\* after it; GetPattern lists the entry at the same times.
C33_DeadlineInclusive ==
    /\ (ret.op = "Put" /\ ret.err = Nil)
       => /\ StoredEntry(ret.key).Expiration =
                IF hist[ret.key].expires THEN hist[ret.key].deadline ELSE 0
          /\ hist[ret.key].expires => hist[ret.key].deadline >= now
    /\ (ret.op = "Get" /\ hist[ret.key].kind = "put")
       => IF PastDeadline(ret.key) THEN ret.err = errNotExists
          ELSE ret.err = Nil /\ ret.body = hist[ret.key].value
    /\ (ret.op = "GetPattern" /\ ret.pattern = <<"*">>)
       => \A k \in Keys :
             hist[k].kind = "put"
             => (~PastDeadline(k) <=>
                   \E i \in 1..(Len(ret.body) - Len(Object(k)) + 1) :
                       SubSeq(ret.body, i, i + Len(Object(k)) - 1) = Object(k))

C33_Witness ==
    /\ ret.op = "Get" /\ hist[ret.key].kind = "put" /\ hist[ret.key].expires
    /\ now = hist[ret.key].deadline /\ now > 1
    /\ ret.err = Nil /\ ret.body = hist[ret.key].value

---------------------------------------------------------------------------
(* Properties of pattern queries (SpecGlob) *)

\* The keys that hold an entry now.
Held == { k \in DOMAIN hist : hist[k].kind = "put" /\ ~PastDeadline(k) }

\* The object of key k as GetPattern writes it.
Written(k) == <<"{", "\"">> \o k \o <<"\"", ":", "\"">> \o hist[k].value \o <<"\"", "}">>

\* C22: GetPattern with a pattern whose bracket expression is not closed
\* returns nil and `[]`, whatever entries are stored.
C22_MalformedPatternMatchesNothing ==
    (ret.op = "GetPattern" /\ BadPattern(ret.pattern))
    => ret.err = Nil /\ ret.body = <<"[", "]">>

C22_Witness ==
    /\ ret.op = "GetPattern" /\ ret.pattern = <<"a", "[">>
    /\ hist[<<"a">>].kind = "put" /\ Stored(<<"a">>)
    /\ ret.err = Nil /\ ret.body = <<"[", "]">>

\* C23: GetPattern(p) returns exactly the entries whose whole key matches the
\* whole pattern, where `*` takes any characters and `?` any one character,
\* the path separator included; GetPattern("*") returns every entry.
C23_StarMatchesAnyCharacter ==
    ret.op = "GetPattern"
    => /\ ret.err = Nil
       /\ \E order \in Perms({ k \in Held : WholeMatch(ret.pattern, k) }) :
             ret.body = Render([i \in DOMAIN order |-> Written(order[i])])

\* A JSON string, read from behind its opening quote up to its closing quote.
RECURSIVE ReadString(_)
ReadString(s) ==
    IF s = <<>> THEN [ok |-> FALSE, str |-> <<>>, rest |-> <<>>]
    ELSE IF Head(s) = "\"" THEN [ok |-> TRUE, str |-> <<>>, rest |-> Tail(s)]
    ELSE IF Head(s) = "\\"
         THEN IF Len(s) < 2 \/ s[2] \notin {"\"", "\\", "/"}
              THEN [ok |-> FALSE, str |-> <<>>, rest |-> <<>>]
              ELSE LET r == ReadString(SubSeq(s, 3, Len(s)))
                   IN  [ok |-> r.ok, str |-> <<s[2]>> \o r.str, rest |-> r.rest]
         ELSE LET r == ReadString(Tail(s))
              IN  [ok |-> r.ok, str |-> <<Head(s)>> \o r.str, rest |-> r.rest]

\* A JSON object of one member whose value is a string: {"key":"value"}.
ReadObject(s) ==
    IF Len(s) < 2 \/ s[1] # "{" \/ s[2] # "\""
    THEN [ok |-> FALSE, pair |-> <<>>, rest |-> <<>>]
    ELSE LET k == ReadString(SubSeq(s, 3, Len(s)))
             v == ReadString(SubSeq(k.rest, 3, Len(k.rest)))
         IN  IF /\ k.ok /\ Len(k.rest) >= 2 /\ k.rest[1] = ":" /\ k.rest[2] = "\""
                /\ v.ok /\ v.rest # <<>> /\ Head(v.rest) = "}"
             THEN [ok |-> TRUE, pair |-> <<k.str, v.str>>, rest |-> Tail(v.rest)]
             ELSE [ok |-> FALSE, pair |-> <<>>, rest |-> <<>>]

\* The objects of a JSON array, read from behind its opening bracket.
RECURSIVE ReadObjects(_)
ReadObjects(s) ==
    LET o == ReadObject(s)
    IN  IF ~o.ok THEN [ok |-> FALSE, pairs |-> <<>>]
        ELSE IF o.rest = <<"]">> THEN [ok |-> TRUE, pairs |-> <<o.pair>>]
        ELSE IF o.rest # <<>> /\ Head(o.rest) = ","
             THEN LET r == ReadObjects(Tail(o.rest))
                  IN  [ok |-> r.ok, pairs |-> <<o.pair>> \o r.pairs]
             ELSE [ok |-> FALSE, pairs |-> <<>>]

\* What a JSON decoder makes of the body of GetPattern.
DecodeArray(body) ==
    IF body = <<>> \/ Head(body) # "[" THEN [ok |-> FALSE, pairs |-> <<>>]
    ELSE IF Tail(body) = <<"]">> THEN [ok |-> TRUE, pairs |-> <<>>]
    ELSE ReadObjects(Tail(body))

\* C29: the body of GetPattern is a JSON array that decodes to the (key,
\* value) pairs of the entries the call selected, in some order.
C29_BodyIsJson ==
    ret.op = "GetPattern"
    => LET d == DecodeArray(ret.body)
       IN  /\ d.ok
           /\ \E order \in Perms({ k \in Held : Match(ret.pattern, k).matched }) :
                 d.pairs = [i \in DOMAIN order |-> <<order[i], hist[order[i]].value>>]

---------------------------------------------------------------------------
(* Properties of concurrent callers (SpecConc) *)

\* The call of p is between its lock(k) and its unlock(k), or between its
\* lockAll, in which it locked the mutex of k, and its unlockAll.
InCriticalSection(p, k) ==
    \/ pc[p] \in {"body", "write", "unlock"} /\ op[p].key = k
    \/ pc[p] = "scan" /\ k \in seen[p]

\* The call of p waits in Lock() for a mutex that is locked.
Blocked(p) == pc[p] \in {"lock_acquire", "lockAll_acquire"} /\ mutex[mtx[p]] # Free

\* C8: in every reachable state at most one call is inside the critical
\* section of a key k, also when two callers reference k for the first time
\* at once and its lock is created lazily.
C8_MutualExclusion ==
    \A k \in Keys : Cardinality({ p \in Procs : InCriticalSection(p, k) }) <= 1

\* C9: no reachable state is a deadlock, that is, one where every caller
\* waits for a locked mutex and none can ever return.
C9_NoDeadlock == ~(\A p \in Procs : Blocked(p))

\* C10: when the only writer is DeleteAll, a GetPattern("*") returns every
\* entry that existed before the DeleteAll or none of them, never a part.
C10_DeleteAllAtomic ==
    \A p \in Procs :
        (res[p].op = "GetPattern" /\ ~wrote)
        => \/ res[p].body = <<"[", "]">>
           \/ \E order \in Perms(Keys) :
                 res[p].body = Render([i \in DOMAIN order |-> Format(Preloaded[order[i]])])

\* The call of p is a Put, Get or Delete between its lock(k) and its unlock(k).
InKeySection(p) == pc[p] \in {"body", "write", "unlock"}

\* The call of p is a GetPattern or DeleteAll between the end of its lockAll
\* and the start of its unlockAll.
InStoreSection(p) == pc[p] = "scan"

\* C11: while a GetPattern or DeleteAll is between the end of its lockAll and
\* the start of its unlockAll, no Put, Get or Delete is inside its own
\* critical section.
C11_WholeStoreExcludes ==
    \A p, q \in Procs : ~(InStoreSection(p) /\ InKeySection(q))

\* C12: while one caller is inside Put(k1) and holds the lock of k1, a Put,
\* Get or Delete on another key k2 that has reached Lock() finds its mutex
\* free and goes on without waiting (no whole-store call is in progress).
C12_DistinctKeysIndependent ==
    \A p, q \in Procs :
        (/\ op[p].name = "Put" /\ InKeySection(p)
         /\ pc[q] = "lock_acquire" /\ op[q].key # op[p].key)
        => (~Blocked(q) /\ ENABLED LockAcquire(q))

C12_Witness ==
    \E p, q \in Procs :
        /\ op[p].name = "Put" /\ pc[p] = "write"
        /\ op[q].name = "Put" /\ pc[q] = "lock_acquire" /\ op[q].key # op[p].key
        /\ mutex[mtx[q]] = Free
        /\ \E m \in MutexIds : mutex[m] = p

---------------------------------------------------------------------------
(* Properties of the memory backend and its snapshot (SpecSnap) *)

\* C13: once Flush() has returned, a new instance constructed on the same
\* directory loads exactly the table that the flushed instance holds: every
\* entry written and not deleted, and no deleted entry.
C13_SnapshotRoundTrip ==
    pc[Caller] = "flushed" => NewMemoryStorage(snap) = [err |-> Nil, table |-> data]

\* C14: once Flush() has returned, the snapshot file is never written again.
C14_NoWriteAfterFlush == [][pc[Caller] = "flushed" => snap' = snap]_vars

C14_Witness ==
    /\ pc[Caller] = "flushed" /\ pc[Background] = "stopped"
    /\ snap = MarshalTable(data) /\ DOMAIN data = {<<"a">>}
    /\ \E k \in Keys : k \in DOMAIN locks

\* C19: the document a checkpoint writes is the whole table s.data as it was
\* at some instant between the start of that checkpoint and the write.
C19_SnapshotConsistent ==
    \A p \in Procs :
        (pc[p] = "marshal" /\ list[p].todo = <<>>) => Marshalled(p) \in during[p]

---------------------------------------------------------------------------
(* Partial visibility (SpecConc) *)

\* The file exists and holds no byte: a Put has truncated it and not yet
\* written the new document.
Truncated(name) == name \in DOMAIN files /\ files[name].kind = "empty"

\* C18: no Get and no GetPattern reads a file that a Put has truncated and
\* not yet rewritten, so no reader takes a key that is being overwritten for
\* an absent one.
C18_NoPartialVisibility ==
    [][\A p \in Procs :
          /\ (GetBody(p) /\ backend = "fs") => ~Truncated(md5Hash(op[p].key))
          /\ (ScanSelect(p) /\ backend = "fs") => ~Truncated(Head(list[p].todo))]_vars

---------------------------------------------------------------------------
(* The lock registry (SpecConc) *)

\* C27: a key of the lock registry stays in it with the same mutex, whatever
\* step follows.
C27_RegistryOnlyGrows ==
    [][\A k \in DOMAIN locks : k \in DOMAIN locks' /\ locks'[k] = locks[k]]_vars

---------------------------------------------------------------------------
(* The snapshot after a checkpoint (SpecSnap) *)

\* C28: when a checkpoint has written the snapshot file, the file decodes to
\* a table with exactly the keys the table had at some instant of that
\* checkpoint.
C28_CheckpointReplaces ==
    [][\A p \in Procs :
          DumpWrite(p)
          => \E t \in during[p] :
                /\ NewMemoryStorage(snap').err = Nil
                /\ DOMAIN NewMemoryStorage(snap').table = DOMAIN t]_vars

---------------------------------------------------------------------------
(* Lock balance (SpecConc) *)

\* C30: every mutex that the unlockAll of a caller releases is one that the
\* caller holds, and when no call is in progress every mutex is free.
C30_LockBalance ==
    /\ [][\A p \in Procs :
             UnlockAllNext(p)
             => \A m \in MutexIds : mutex'[m] # mutex[m] => mutex[m] = p]_vars
    /\ []((~crashed /\ \A p \in Procs : pc[p] = "idle")
             => \A m \in MutexIds : mutex[m] = Free)

---------------------------------------------------------------------------
(* Progress of checkpoints (SpecSnapFair) *)

\* C34: a checkpoint that a tick of the ticker started is completed: the
\* goroutine is back at its select.
C34_TickCompletes == (op[Background].name = "Tick") ~> (pc[Background] = "idle")

---------------------------------------------------------------------------
(* Crash recovery of the memory backend (SpecSnap) *)

\* C36: a crash at any point leaves a snapshot file from which a new instance
\* starts without error on the table of the last completed checkpoint: every
\* step other than the write that completes a checkpoint, the truncation
\* included, leaves the table a new instance would load unchanged.
C36_CrashRecovers ==
    [][(\A p \in Procs : ~DumpWrite(p))
       => /\ NewMemoryStorage(snap').err = Nil
          /\ NewMemoryStorage(snap').table = NewMemoryStorage(snap).table]_vars

---------------------------------------------------------------------------
(* Equivalence of the backends (SpecBoth) *)

\* How a caller classifies an error: success, NotFound, or another failure.
Class(err) == IF err = Nil THEN "ok" ELSE IF IsNotExist(err) THEN "notfound" ELSE "error"

\* C37: every call of a history made on both backends returns the same
\* outcome from each: the same classification, the same value from Get, the
\* same set of objects from GetPattern.
C37_BackendsAgree ==
    ret.op \notin {"none"} =>
        /\ Class(ret.fs.err) = Class(ret.mem.err)
        /\ ret.op = "Get" => ret.fs.body = ret.mem.body
        /\ ret.op = "GetPattern" => ret.fs.objs = ret.mem.objs

---------------------------------------------------------------------------
(* Removal failures of DeleteAll (Spec) *)

\* C38: a DeleteAll of the filesystem backend during which the removal of a
\* file failed returns an error, and a DeleteAll that returned nil leaves no
\* file in the directory.
C38_DeleteAllSurfacesFailure ==
    (backend = "fs" /\ ret.op = "DeleteAll")
    => /\ ret.fault = "remove" => ret.err # Nil
       /\ ret.err = Nil => DOMAIN files = {}

---------------------------------------------------------------------------
(* expire_in (SpecExpire) *)

\* C39: a PUT with expire_in = N, N a non-negative integer that the handler
\* accepts, stores the entry with the deadline (time of the request + N
\* seconds), and a GET of the key answers 200 with the value until that time
\* has passed and 404 afterwards.
C39_ExpireInExact ==
    /\ \A k \in Keys :
          (hist[k].kind = "put" /\ hist[k].expires)
          => StoredEntry(k).Expiration = hist[k].deadline
    /\ (ret.op = "GET" /\ hist[ret.key].kind = "put" /\ hist[ret.key].expires)
       => IF now > hist[ret.key].deadline
          THEN ret.status = StatusNotFound
          ELSE ret.status = StatusOK /\ ret.body = hist[ret.key].value

============================================================================
